---- MODULE Spec2Model ----
(***************************************************************************)
(* Tower Bot engine (engine.py v2.17): the scheduler loop, the cooldown    *)
(* tracker (debounce.py) and the perk-selection state machine.             *)
(*                                                                         *)
(* Time is counted in whole seconds.  `clock` is the time elapsed since    *)
(* the TowerBot object was built; time.perf_counter() reads `clock` and    *)
(* time.time() reads WallEpoch + clock.  Texts are sequences of            *)
(* one-character strings; a template score is counted in hundredths.      *)
(***************************************************************************)
EXTENDS Integers, Sequences, FiniteSets, TLC

VARIABLES
    cfg,        \* the BotConfig shared by the worker and the controlling context
    _next,      \* TowerBot._next: task key -> next eligible perf_counter time
    TEMPLATES,  \* the keys of the module-level TEMPLATES dict
    pc,         \* where the worker is in the body of _loop
    now,        \* the local `now` of _loop (line 190)
    clock,      \* seconds elapsed since construction
    img,        \* what the latest step read from the tick's frame
    taps,       \* the mac_tap calls of the latest step, in order
    triggered,  \* `triggered` at the new-perk task's latest evaluation
    pre,        \* cfg, _next, triggered and pc as the latest step found them
    writes,     \* number of field writes the controlling context has made
    call,       \* the latest direct can_act call: its key, its wall time, what
                \* it returned, and when the key was last granted before it
    granted,    \* task key -> wall time of its latest direct call that returned True
    _stop,      \* TowerBot._stop: whether the event is set
    _thr,       \* TowerBot._thr: "None", or the thread it names, "alive" or "dead"
    workers,    \* number of threads that are executing _loop
    joining,    \* whether a stop() call is waiting in self._thr.join()
    REGION_FILE,      \* regions.json: the set holding its content, {} when missing
    tesseract_found,  \* whether pytesseract finds the tesseract binary
    attempted,  \* task key -> `now` of the iteration that last ran the task's body
    match,      \* the latest cv_match call: its arguments, what it scored
    lb          \* TowerBotGUI.lb: the rows of the perk-order list, top first,
                \* and the indices (from 0) of the selected rows

\* the fields of the thread handling
life == <<_stop, _thr, workers, joining>>

\* what no step of the loop body writes: the templates, the regions file, the
\* tesseract binary, the latest direct cv_match call, the GUI's perk list
outside == <<TEMPLATES, REGION_FILE, tesseract_found, match, lb>>

vars == <<cfg, _next, TEMPLATES, pc, now, clock, img, taps, triggered, pre,
          writes, call, granted, _stop, _thr, workers, joining,
          REGION_FILE, tesseract_found, attempted, match, lb>>

----------------------------------------------------------------------------
(* Bounds of the model *)

MaxTime  == 4      \* ticks start while clock < MaxTime
MaxStep  == 2      \* a tick (its work and its sleep) lasts 1..MaxStep seconds
MaxWrites == 1     \* field writes by the controlling context
WallEpoch == 1     \* time.time() at construction (any positive value)

----------------------------------------------------------------------------
(* BotState, engine.py 33-37 *)

IDLE           == "IDLE"
UPGRADING      == "UPGRADING"
PERK_SELECTING == "PERK_SELECTING"
WAITING        == "WAITING"
BotState       == {IDLE, UPGRADING, PERK_SELECTING, WAITING}

(* BotConfig defaults, engine.py 56-95 *)

STOP_DEFAULT == 999999

\* cfg._cooldown_time, lines 93-95
cooldown_time == [retry |-> 2, def |-> 1, upg |-> 1, gems |-> 1, float |-> 2, perk |-> 3]

\* TowerBot.__init__, line 132
NextKeys == {"retry", "def", "upg", "gems", "wave", "float", "perk"}

(* config.py DEFAULT_REGIONS: (x, y, w, h) regions and (x, y) tap points *)

DEFAULT_REGIONS ==
    [new_perk_region   |-> <<483, 194, 505, 73>>,
     perk1_region      |-> <<159, 553, 1124, 243>>,
     perk2_region      |-> <<159, 818, 1124, 213>>,
     perk3_region      |-> <<159, 1072, 1124, 224>>,
     perk4_region      |-> <<159, 1336, 1124, 224>>,
     retry1_region     |-> <<250, 1850, 280, 80>>,
     retry2_region     |-> <<256, 1920, 284, 80>>,
     defence_region    |-> <<10, 1490, 820, 90>>,
     health_region     |-> <<400, 1785, 270, 45>>,
     abs_def_region    |-> <<1088, 2065, 276, 38>>,
     claim_region      |-> <<86, 1023, 216, 68>>,
     wave_region       |-> <<743, 1315, 377, 65>>,
     float_gem_coord   |-> <<960, 748>>,
     def_tab_tap_coord |-> <<530, 2420>>]

\* BotConfig(perk_priority = priority), every other field at its default
BotConfig(priority) ==
    [retry_enabled   |-> TRUE,
     health_enabled  |-> TRUE,
     abs_def_enabled |-> TRUE,
     gems_enabled    |-> TRUE,
     float_enabled   |-> FALSE,
     perk_enabled    |-> FALSE,
     state           |-> IDLE,
     wave_number     |-> 0,
     health_stop     |-> STOP_DEFAULT,
     abs_def_stop    |-> STOP_DEFAULT,
     perk_stop       |-> STOP_DEFAULT,
     retry_interval   |-> 2,
     defence_interval |-> 1,
     upgrade_interval |-> 1,
     gems_interval    |-> 1,
     wave_interval    |-> 1,
     float_interval   |-> 2,
     perk_interval    |-> 2,
     new_perk_region   |-> DEFAULT_REGIONS.new_perk_region,
     perk1_region      |-> DEFAULT_REGIONS.perk1_region,
     perk2_region      |-> DEFAULT_REGIONS.perk2_region,
     perk3_region      |-> DEFAULT_REGIONS.perk3_region,
     perk4_region      |-> DEFAULT_REGIONS.perk4_region,
     retry1_region     |-> DEFAULT_REGIONS.retry1_region,
     retry2_region     |-> DEFAULT_REGIONS.retry2_region,
     defence_region    |-> DEFAULT_REGIONS.defence_region,
     health_region     |-> DEFAULT_REGIONS.health_region,
     abs_def_region    |-> DEFAULT_REGIONS.abs_def_region,
     claim_region      |-> DEFAULT_REGIONS.claim_region,
     wave_region       |-> DEFAULT_REGIONS.wave_region,
     float_gem_coord   |-> DEFAULT_REGIONS.float_gem_coord,
     def_tab_tap_coord |-> DEFAULT_REGIONS.def_tab_tap_coord,
     perk_priority   |-> priority,
     _cooldown       |-> <<>>]

----------------------------------------------------------------------------
(* Python helpers *)

\* dict.get(key, default)
Get(d, key, default) == IF key \in DOMAIN d THEN d[key] ELSE default

\* d[key] = value
Put(d, key, value) ==
    [k \in DOMAIN d \cup {key} |-> IF k = key THEN value ELSE d[k]]

\* hasattr(cfg, key) and tuple(val)
hasattr(c, key) == key \in DOMAIN c
tuple(val) == val

\* time.time() and time.perf_counter() at elapsed time t
time_time(t)    == WallEpoch + t
perf_counter(t) == t

----------------------------------------------------------------------------
(* load_regions, engine.py 98-106: the file it leaves and the cfg it leaves *)

load_regions(c, file) ==
    LET written == IF file = {} THEN {DEFAULT_REGIONS} ELSE file
        data == CHOOSE d \in written : TRUE
    IN  [file |-> written,
         cfg  |-> [key \in DOMAIN c |->
                      IF key \in DOMAIN data /\ hasattr(c, key)
                      THEN tuple(data[key]) ELSE c[key]]]

----------------------------------------------------------------------------
(* debounce.py *)

\* line 12: the override map first, then the "<key>_interval" attribute, then 0
IntervalAttr(key) ==
    CASE key = "retry"   -> <<"retry_interval">>
      [] key = "defence" -> <<"defence_interval">>
      [] key = "upgrade" -> <<"upgrade_interval">>
      [] key = "gems"    -> <<"gems_interval">>
      [] key = "wave"    -> <<"wave_interval">>
      [] key = "float"   -> <<"float_interval">>
      [] key = "perk"    -> <<"perk_interval">>
      [] OTHER           -> <<>>
getattr(c, key, default) ==
    IF IntervalAttr(key) # <<>> THEN c[IntervalAttr(key)[1]] ELSE default
intervalMutantFieldFirst(c, key) == getattr(c, key, Get(cooldown_time, key, 0))
interval(c, key) == Get(cooldown_time, key, getattr(c, key, 0))

\* can_act(cfg, key) called at wall time t: what it returns and the cfg it leaves
can_actMutantNoInterval(c, key, t) ==
    IF t >= Get(c._cooldown, key, 0)
    THEN [ret |-> TRUE, cfg |-> [c EXCEPT !._cooldown = Put(@, key, t)]]
    ELSE [ret |-> FALSE, cfg |-> c]
can_actMutantWriteFirst(c, key, t) ==
    [ret |-> t >= Get(c._cooldown, key, 0),
     cfg |-> [c EXCEPT !._cooldown = Put(@, key, t + interval(c, key))]]
can_act(c, key, t) ==
    IF t >= Get(c._cooldown, key, 0)
    THEN [ret |-> TRUE,
          cfg |-> [c EXCEPT !._cooldown = Put(@, key, t + interval(c, key))]]
    ELSE [ret |-> FALSE, cfg |-> c]

----------------------------------------------------------------------------
(* Texts: str.lower, str.replace, str.strip, the `in` test, \b(\d+)\b *)

UPPER == [A |-> "a", B |-> "b", C |-> "c", D |-> "d", E |-> "e", F |-> "f",
          G |-> "g", H |-> "h", I |-> "i", J |-> "j", K |-> "k", L |-> "l",
          M |-> "m", N |-> "n", O |-> "o", P |-> "p", Q |-> "q", R |-> "r",
          S |-> "s", T |-> "t", U |-> "u", V |-> "v", W |-> "w", X |-> "x",
          Y |-> "y", Z |-> "z"]
Letters == DOMAIN UPPER \cup {UPPER[c] : c \in DOMAIN UPPER}
DigitValue == [c \in {"0","1","2","3","4","5","6","7","8","9"} |->
                 CASE c = "0" -> 0 [] c = "1" -> 1 [] c = "2" -> 2 [] c = "3" -> 3
                   [] c = "4" -> 4 [] c = "5" -> 5 [] c = "6" -> 6 [] c = "7" -> 7
                   [] c = "8" -> 8 [] c = "9" -> 9]
Digits     == DOMAIN DigitValue
WordChars  == Letters \cup Digits \cup {"_"}
Whitespace == {" ", "\n", "\t", "\r"}

\* str.lower()
lower(s) == [i \in 1..Len(s) |-> IF s[i] \in DOMAIN UPPER THEN UPPER[s[i]] ELSE s[i]]

\* str.replace("\n", " ")
replace_nl(s) == [i \in 1..Len(s) |-> IF s[i] = "\n" THEN " " ELSE s[i]]

\* str.strip()
strip(s) ==
    LET keep == {i \in 1..Len(s) : s[i] \notin Whitespace}
        Min(S) == CHOOSE x \in S : \A y \in S : x <= y
        Max(S) == CHOOSE x \in S : \A y \in S : x >= y
    IN  IF keep = {} THEN <<>> ELSE SubSeq(s, Min(keep), Max(keep))

\* `sub in s` on strings
Contains(sub, s) ==
    \E i \in 0..(Len(s) - Len(sub)) : SubSeq(s, i + 1, i + Len(sub)) = sub

\* int(digits)
RECURSIVE int(_)
int(ds) == IF ds = <<>> THEN 0
           ELSE 10 * int(SubSeq(ds, 1, Len(ds) - 1)) + DigitValue[ds[Len(ds)]]

\* re.search(r"\b(\d+)\b", txt): the start positions of the digit runs that
\* have a word boundary on both sides; a run is matched whole or not at all,
\* because no boundary lies between two digits
DigitRunStarts(txt) ==
    {i \in 1..Len(txt) :
        /\ txt[i] \in Digits
        /\ (i = 1 \/ txt[i - 1] \notin WordChars)
        /\ LET after == {j \in i..Len(txt) : txt[j] \notin Digits}
               stop  == IF after = {} THEN Len(txt) + 1
                        ELSE CHOOSE j \in after : \A k \in after : j <= k
           IN  stop = Len(txt) + 1 \/ txt[stop] \notin WordChars}

\* m.group(1) of the leftmost match, as a one-element set; {} when m is None
re_search_digits(txt) ==
    LET starts == DigitRunStarts(txt)
    IN  IF starts = {} THEN {}
        ELSE LET i     == CHOOSE x \in starts : \A y \in starts : x <= y
                 after == {j \in i..Len(txt) : txt[j] \notin Digits}
                 stop  == IF after = {} THEN Len(txt) + 1
                          ELSE CHOOSE j \in after : \A k \in after : j <= k
             IN  {SubSeq(txt, i, stop - 1)}

----------------------------------------------------------------------------
(* ocr_utils.py *)

\* the outcome of pytesseract.image_to_string when the binary is missing
TesseractNotFoundError == <<"TesseractNotFoundError">>

\* ocr_text, lines 28-34: the text returned for an image_to_string outcome
ocr_text_valueMutantMessage(outcome) ==
    IF outcome = TesseractNotFoundError
    THEN <<"n","o","t"," ","i","n"," ","p","a","t","h">>
    ELSE strip(lower(replace_nl(outcome)))
ocr_text_value(outcome) ==
    IF outcome = TesseractNotFoundError THEN <<>>
    ELSE strip(lower(replace_nl(outcome)))

----------------------------------------------------------------------------
(* Keywords of engine.py *)

kw_retry   == <<"r","e","t","r","y">>
kw_defense == <<"d","e","f","e","n","s","e">>
kw_defence == <<"d","e","f","e","n","c","e">>
kw_upgrade == <<"u","p","g","r","a","d","e">>
kw_claim   == <<"c","l","a","i","m">>
kw_new_perk == <<"n","e","w"," ","p","e","r","k">>

\* line 233, 289, 312: score >= 0.7, in hundredths
MATCH_THRESHOLD == 70

\* x + w//2, y + h//2
CentreMutantCeil(region) ==
    <<region[1] + (region[3] + 1) \div 2, region[2] + (region[4] + 1) \div 2>>
Centre(region) == <<region[1] + region[3] \div 2, region[2] + region[4] \div 2>>

----------------------------------------------------------------------------
(* What the collaborators may return in the model: image_to_string outcomes *)
(* per region, template scores, white-pixel results                         *)

WaveOutcomes    == { <<>>, <<"7">>, <<"W","a","v","e"," ","4","2"," ">>,
                     <<"w","4"," ","7">> }
RetryOutcomes   == { <<>>, <<"R","e","t","r","y","\n">> }
DefenceOutcomes == { <<"U","p","g","r","a","d","e">>,
                     <<"D","e","f","e","n","s","e"," ","U","p","g","r","a","d","e","s">> }
ClaimOutcomes   == { <<>>, <<"C","l","a","i","m">> }
NewPerkOutcomes == { <<"p","e","r","k">>, <<"N","e","w"," ","P","e","r","k","\n">> }
PerkOutcomes    == { <<>>, <<"x","a">>, <<"B","y">> }
Scores          == { 69, 70 }
PriorityLists   == { << <<"a">>, <<"b">> >> }

\* regions.json as a calibration left it, and the files a run may find
Calibrated == [DEFAULT_REGIONS EXCEPT !.wave_region = <<740, 1310, 380, 70>>,
                                      !.float_gem_coord = <<950, 750>>]
RegionFiles == { {}, {Calibrated} }

\* every image_to_string outcome of the model
Outcomes ==
    WaveOutcomes \cup RetryOutcomes \cup DefenceOutcomes \cup ClaimOutcomes
        \cup NewPerkOutcomes \cup PerkOutcomes \cup {TesseractNotFoundError}

\* ocr_text on the outcomes of the model, computed once
OcrTexts == [outcome \in Outcomes |-> ocr_text_value(outcome)]
ocr_text(outcome) == OcrTexts[outcome]

\* ocr_utils.py 28-32: what pytesseract.image_to_string may do on a region
\* whose texts are `outcomes`
image_to_string(outcomes) ==
    IF tesseract_found THEN outcomes ELSE {TesseractNotFoundError}

\* the argument a task is given for a call it does not make
Unread == "unread"

\* no check has read anything
NoImg == [wave |-> {}, retry1 |-> {}, retry2 |-> {},
          defence_score |-> {}, defence_text |-> {},
          health |-> {}, abs_def |-> {},
          claim_score |-> {}, claim_text |-> {},
          new_perk_score |-> {}, new_perk_text |-> {},
          perk |-> {}]

\* a step's working state: the fields the loop body writes, its taps, its reads
Begin == [cfg |-> cfg, _next |-> _next, taps |-> <<>>, img |-> NoImg,
          triggered |-> triggered]

\* mac_tap(x, y)
mac_tap(m, point) == [m EXCEPT !.taps = Append(@, point)]

----------------------------------------------------------------------------
(* TowerBot._handle_perk_selection, engine.py 149-183 *)

\* lines 165-172: the (priority index, region index) the two loops stop at,
\* as a one-element set; {} when they run to the end
ChosenMutantRegionFirst(priority, texts) ==
    LET hits(i) == {p \in 1..Len(priority) : Contains(priority[p], texts[i])}
        is      == {i \in 1..Len(texts) : hits(i) # {}}
    IN  IF is = {} THEN {}
        ELSE LET i == CHOOSE x \in is : \A y \in is : x <= y
                 p == CHOOSE x \in hits(i) : \A y \in hits(i) : x <= y
             IN  {<<p, i>>}
Chosen(priority, texts) ==
    LET hits(p) == {i \in 1..Len(texts) : Contains(priority[p], texts[i])}
        ps      == {p \in 1..Len(priority) : hits(p) # {}}
    IN  IF ps = {} THEN {}
        ELSE LET p == CHOOSE x \in ps : \A y \in ps : x <= y
                 i == CHOOSE x \in hits(p) : \A y \in hits(p) : x <= y
             IN  {<<p, i>>}

\* lines 156-159: the four perk regions in their fixed order
PerkRegions(c) == <<c.perk1_region, c.perk2_region, c.perk3_region, c.perk4_region>>

\* lines 160-163: the lowercased OCR text of each region
TextRegions(outs) == [i \in 1..Len(outs) |-> lower(ocr_text(outs[i]))]

\* the whole handler; outs are the image_to_string outcomes of the 4 regions
handle_perk_selectionMutantNoReturn(m, outs) ==
    LET texts   == TextRegions(outs)
        all     == {pi \in (1..Len(m.cfg.perk_priority)) \X (1..Len(texts)) :
                       Contains(m.cfg.perk_priority[pi[1]], texts[pi[2]])}
        First(S) == CHOOSE x \in S : \A y \in S :
                       x[1] < y[1] \/ (x[1] = y[1] /\ x[2] <= y[2])
        m1      == [m EXCEPT !.img.perk = {outs}]
        m2      == IF all # {}
                   THEN mac_tap(m1, Centre(PerkRegions(m.cfg)[First(all)[2]]))
                   ELSE m1
        rest    == all \ {First(all)}
        m3      == IF all # {} /\ rest # {}
                   THEN mac_tap(m2, Centre(PerkRegions(m.cfg)[First(rest)[2]]))
                   ELSE m2
    IN  [m3 EXCEPT !.cfg.state = IDLE]
handle_perk_selectionMutantStayOnMiss(m, outs) ==
    LET chosen == Chosen(m.cfg.perk_priority, TextRegions(outs))
        m1     == [m EXCEPT !.img.perk = {outs}]
    IN  IF chosen # {}
        THEN LET pi == CHOOSE c \in chosen : TRUE
             IN  [mac_tap(m1, Centre(PerkRegions(m.cfg)[pi[2]]))
                      EXCEPT !.cfg.state = IDLE]
        ELSE m1
handle_perk_selectionMutantWaiting(m, outs) ==
    LET chosen == Chosen(m.cfg.perk_priority, TextRegions(outs))
        m1     == [m EXCEPT !.img.perk = {outs}]
        m2     == IF chosen # {}
                  THEN LET pi == CHOOSE c \in chosen : TRUE
                       IN  mac_tap(m1, Centre(PerkRegions(m.cfg)[pi[2]]))
                  ELSE m1
    IN  [m2 EXCEPT !.cfg.state = WAITING]
handle_perk_selection(m, outs) ==
    LET chosen == Chosen(m.cfg.perk_priority, TextRegions(outs))
        m1     == [m EXCEPT !.img.perk = {outs}]
        m2     == IF chosen # {}
                  THEN LET pi == CHOOSE c \in chosen : TRUE
                       IN  mac_tap(m1, Centre(PerkRegions(m.cfg)[pi[2]]))
                  ELSE m1
    IN  [m2 EXCEPT !.cfg.state = IDLE]

----------------------------------------------------------------------------
(* The tasks of one IDLE tick, engine.py 201-324.  `now` is the             *)
(* perf_counter reading of line 190, `wall` the time.time() reading of the  *)
(* step's can_act call.                                                     *)

\* 1) Wave OCR, lines 202-208
WaveDue(m, tnow) == tnow >= m._next["wave"]
WaveTaskMutantNoReschedule(m, tnow, out) ==
    IF WaveDue(m, tnow)
    THEN LET txt == ocr_text(out)
             grp == re_search_digits(txt)
         IN  [m EXCEPT !.img.wave = {out},
                       !.cfg.wave_number =
                           IF grp # {} THEN int(CHOOSE g \in grp : TRUE) ELSE @]
    ELSE m
WaveTaskMutantResetOnMiss(m, tnow, out) ==
    IF WaveDue(m, tnow)
    THEN LET txt == ocr_text(out)
             grp == re_search_digits(txt)
         IN  [m EXCEPT !._next["wave"] = tnow + m.cfg.wave_interval,
                       !.img.wave = {out},
                       !.cfg.wave_number =
                           IF grp # {} THEN int(CHOOSE g \in grp : TRUE) ELSE 0]
    ELSE m
WaveTask(m, tnow, out) ==
    IF WaveDue(m, tnow)
    THEN LET txt == ocr_text(out)
             grp == re_search_digits(txt)
         IN  [m EXCEPT !._next["wave"] = tnow + m.cfg.wave_interval,
                       !.img.wave = {out},
                       !.cfg.wave_number =
                           IF grp # {} THEN int(CHOOSE g \in grp : TRUE) ELSE @]
    ELSE m

\* 2) Retry OCR, lines 211-222
RetryDue(m, tnow, wall) ==
    /\ m.cfg.retry_enabled
    /\ tnow >= m._next["retry"]
    /\ can_act(m.cfg, "retry", wall).ret
RetryHit(out) == Contains(kw_retry, lower(ocr_text(out)))
RetryTaskMutantCooldownFirst(m, tnow, wall, out1, out2) ==
    IF tnow >= m._next["retry"] /\ can_act(m.cfg, "retry", wall).ret
    THEN LET m1 == [m EXCEPT !.cfg = can_act(@, "retry", wall).cfg]
         IN  IF m.cfg.retry_enabled
             THEN LET m2 == [m1 EXCEPT !._next["retry"] = tnow + m.cfg.retry_interval,
                                       !.img.retry1 = {out1}]
                  IN  IF RetryHit(out1)
                      THEN mac_tap(m2, Centre(m.cfg.retry1_region))
                      ELSE LET m3 == [m2 EXCEPT !.img.retry2 = {out2}]
                           IN  IF RetryHit(out2)
                               THEN mac_tap(m3, Centre(m.cfg.retry2_region))
                               ELSE m3
             ELSE m1
    ELSE m
RetryTaskMutantFirstRegionOnly(m, tnow, wall, out1, out2) ==
    IF RetryDue(m, tnow, wall)
    THEN LET m1 == [m EXCEPT !.cfg = can_act(@, "retry", wall).cfg,
                             !._next["retry"] = tnow + m.cfg.retry_interval,
                             !.img.retry1 = {out1}]
         IN  IF RetryHit(out1)
             THEN mac_tap(m1, Centre(m.cfg.retry1_region))
             ELSE [m1 EXCEPT !.img.retry2 = {out2}]
    ELSE m
RetryTask(m, tnow, wall, out1, out2) ==
    IF RetryDue(m, tnow, wall)
    THEN LET m1 == [m EXCEPT !.cfg = can_act(@, "retry", wall).cfg,
                             !._next["retry"] = tnow + m.cfg.retry_interval,
                             !.img.retry1 = {out1}]
         IN  IF RetryHit(out1)
             THEN mac_tap(m1, Centre(m.cfg.retry1_region))
             ELSE LET m2 == [m1 EXCEPT !.img.retry2 = {out2}]
                  IN  IF RetryHit(out2)
                      THEN mac_tap(m2, Centre(m.cfg.retry2_region))
                      ELSE m2
    ELSE m

\* 3) Defence tab, lines 225-246
DefenceDue(m, tnow) == tnow >= m._next["def"]
DefenceUsesTemplate == "defence_region" \in TEMPLATES
DefenceActive(out) ==
    IF DefenceUsesTemplate
    THEN out >= MATCH_THRESHOLD
    ELSE LET low == lower(ocr_text(out))
         IN  (Contains(kw_defense, low) \/ Contains(kw_defence, low))
             /\ Contains(kw_upgrade, low)
DefenceTaskMutantTapActive(m, tnow, wall, out) ==
    IF DefenceDue(m, tnow)
    THEN LET m1 == [m EXCEPT !._next["def"] = tnow + m.cfg.defence_interval,
                             !.img.defence_score = IF DefenceUsesTemplate THEN {out} ELSE @,
                             !.img.defence_text  = IF DefenceUsesTemplate THEN @ ELSE {out}]
         IN  IF can_act(m.cfg, "def", wall).ret
             THEN mac_tap([m1 EXCEPT !.cfg = can_act(@, "def", wall).cfg],
                          m.cfg.def_tab_tap_coord)
             ELSE m1
    ELSE m
DefenceTask(m, tnow, wall, out) ==
    IF DefenceDue(m, tnow)
    THEN LET m1 == [m EXCEPT !._next["def"] = tnow + m.cfg.defence_interval,
                             !.img.defence_score = IF DefenceUsesTemplate THEN {out} ELSE @,
                             !.img.defence_text  = IF DefenceUsesTemplate THEN @ ELSE {out}]
         IN  IF ~DefenceActive(out) /\ can_act(m.cfg, "def", wall).ret
             THEN mac_tap([m1 EXCEPT !.cfg = can_act(@, "def", wall).cfg],
                          m.cfg.def_tab_tap_coord)
             ELSE m1
    ELSE m

\* 4) Health and absolute-defence upgrades, lines 249-266
UpgradeDue(m, tnow, wall) ==
    /\ tnow >= m._next["upg"]
    /\ can_act(m.cfg, "upg", wall).ret
HealthCheckedMutantAtThreshold(m, tnow, wall) ==
    /\ UpgradeDue(m, tnow, wall)
    /\ m.cfg.health_enabled
    /\ m.cfg.wave_number <= m.cfg.health_stop
HealthChecked(m, tnow, wall) ==
    /\ UpgradeDue(m, tnow, wall)
    /\ m.cfg.health_enabled
    /\ m.cfg.wave_number < m.cfg.health_stop
AbsDefChecked(m, tnow, wall) ==
    /\ UpgradeDue(m, tnow, wall)
    /\ m.cfg.abs_def_enabled
    /\ m.cfg.wave_number < m.cfg.abs_def_stop
UpgradeTaskMutantElif(m, tnow, wall, white_h, white_a) ==
    IF UpgradeDue(m, tnow, wall)
    THEN LET m1 == [m EXCEPT !.cfg = can_act(@, "upg", wall).cfg,
                             !._next["upg"] = tnow + m.cfg.upgrade_interval]
             m2 == IF HealthChecked(m, tnow, wall)
                   THEN LET r == [m1 EXCEPT !.img.health = {white_h}]
                        IN  IF white_h THEN mac_tap(r, Centre(m.cfg.health_region)) ELSE r
                   ELSE m1
         IN  IF AbsDefChecked(m, tnow, wall)
             THEN LET r == [m2 EXCEPT !.img.abs_def = {white_a}]
                  IN  IF white_a /\ m2.taps = <<>>
                      THEN mac_tap(r, Centre(m.cfg.abs_def_region)) ELSE r
             ELSE m2
    ELSE m
UpgradeTask(m, tnow, wall, white_h, white_a) ==
    IF UpgradeDue(m, tnow, wall)
    THEN LET m1 == [m EXCEPT !.cfg = can_act(@, "upg", wall).cfg,
                             !._next["upg"] = tnow + m.cfg.upgrade_interval]
             m2 == IF HealthChecked(m, tnow, wall)
                   THEN LET r == [m1 EXCEPT !.img.health = {white_h}]
                        IN  IF white_h THEN mac_tap(r, Centre(m.cfg.health_region)) ELSE r
                   ELSE m1
         IN  IF AbsDefChecked(m, tnow, wall)
             THEN LET r == [m2 EXCEPT !.img.abs_def = {white_a}]
                  IN  IF white_a THEN mac_tap(r, Centre(m.cfg.abs_def_region)) ELSE r
             ELSE m2
    ELSE m

\* 5) Float gem, lines 269-275
FloatDueMutantIgnoreToggle(m, tnow, wall) ==
    /\ tnow >= m._next["float"]
    /\ can_act(m.cfg, "float", wall).ret
FloatDue(m, tnow, wall) ==
    /\ m.cfg.float_enabled
    /\ tnow >= m._next["float"]
    /\ can_act(m.cfg, "float", wall).ret
FloatTask(m, tnow, wall) ==
    IF FloatDue(m, tnow, wall)
    THEN mac_tap([m EXCEPT !.cfg = can_act(@, "float", wall).cfg,
                           !._next["float"] = tnow + m.cfg.float_interval],
                 m.cfg.float_gem_coord)
    ELSE m

\* 6) Claim gems, lines 278-298
GemsDueMutantIgnoreToggle(m, tnow, wall) ==
    /\ tnow >= m._next["gems"]
    /\ can_act(m.cfg, "gems", wall).ret
GemsDue(m, tnow, wall) ==
    /\ m.cfg.gems_enabled
    /\ tnow >= m._next["gems"]
    /\ can_act(m.cfg, "gems", wall).ret
ClaimUsesTemplateMutantAnyTemplate == TEMPLATES # {}
ClaimUsesTemplate == "claim_region" \in TEMPLATES
ClaimHitMutantStrict(out) ==
    IF ClaimUsesTemplate
    THEN out > MATCH_THRESHOLD
    ELSE Contains(kw_claim, lower(ocr_text(out)))
ClaimHit(out) ==
    IF ClaimUsesTemplate
    THEN out >= MATCH_THRESHOLD
    ELSE Contains(kw_claim, lower(ocr_text(out)))
GemsTask(m, tnow, wall, out) ==
    IF GemsDue(m, tnow, wall)
    THEN LET m1 == [m EXCEPT !.cfg = can_act(@, "gems", wall).cfg,
                             !._next["gems"] = tnow + m.cfg.gems_interval,
                             !.img.claim_score = IF ClaimUsesTemplate THEN {out} ELSE @,
                             !.img.claim_text  = IF ClaimUsesTemplate THEN @ ELSE {out}]
         IN  IF ClaimHit(out) THEN mac_tap(m1, Centre(m.cfg.claim_region)) ELSE m1
    ELSE m

\* 7) New perk detection, lines 301-324
PerkDue(m, tnow, wall) ==
    /\ m.cfg.perk_enabled
    /\ tnow >= m._next["perk"]
    /\ can_act(m.cfg, "perk", wall).ret
NewPerkUsesTemplate == "new_perk_region" \in TEMPLATES
NewPerkTriggered(out) ==
    IF NewPerkUsesTemplate
    THEN out >= MATCH_THRESHOLD
    ELSE Contains(kw_new_perk, lower(ocr_text(out)))
NewPerkTaskMutantAlwaysSelect(m, tnow, wall, out) ==
    IF PerkDue(m, tnow, wall)
    THEN LET m1 == [m EXCEPT !.cfg = can_act(@, "perk", wall).cfg,
                             !._next["perk"] = tnow + m.cfg.perk_interval,
                             !.img.new_perk_score = IF NewPerkUsesTemplate THEN {out} ELSE @,
                             !.img.new_perk_text  = IF NewPerkUsesTemplate THEN @ ELSE {out},
                             !.triggered = NewPerkTriggered(out)]
             m2 == IF NewPerkTriggered(out)
                   THEN mac_tap(m1, Centre(m.cfg.new_perk_region))
                   ELSE m1
         IN  [m2 EXCEPT !.cfg.state = PERK_SELECTING]
    ELSE m
NewPerkTaskMutantEdge(m, tnow, wall, out) ==
    IF PerkDue(m, tnow, wall)
    THEN LET m1 == [m EXCEPT !.cfg = can_act(@, "perk", wall).cfg,
                             !._next["perk"] = tnow + m.cfg.perk_interval,
                             !.img.new_perk_score = IF NewPerkUsesTemplate THEN {out} ELSE @,
                             !.img.new_perk_text  = IF NewPerkUsesTemplate THEN @ ELSE {out},
                             !.triggered = NewPerkTriggered(out)]
         IN  IF NewPerkTriggered(out) /\ ~m.triggered
             THEN [mac_tap(m1, Centre(m.cfg.new_perk_region))
                       EXCEPT !.cfg.state = PERK_SELECTING]
             ELSE m1
    ELSE m
NewPerkTask(m, tnow, wall, out) ==
    IF PerkDue(m, tnow, wall)
    THEN LET m1 == [m EXCEPT !.cfg = can_act(@, "perk", wall).cfg,
                             !._next["perk"] = tnow + m.cfg.perk_interval,
                             !.img.new_perk_score = IF NewPerkUsesTemplate THEN {out} ELSE @,
                             !.img.new_perk_text  = IF NewPerkUsesTemplate THEN @ ELSE {out},
                             !.triggered = NewPerkTriggered(out)]
         IN  IF NewPerkTriggered(out)
             THEN [mac_tap(m1, Centre(m.cfg.new_perk_region))
                       EXCEPT !.cfg.state = PERK_SELECTING]
             ELSE m1
    ELSE m

----------------------------------------------------------------------------
(* The scheduler loop, engine.py 185-327.  The worker takes one step per    *)
(* task; the controlling context may write a field between two steps.       *)

TemplateKeys == {"defence_region", "claim_region", "new_perk_region"}

NoCall == [key |-> "", now |-> 0, ret |-> FALSE, last |-> {}]

\* no cv_match call has been made
NoMatch == [sub |-> {}, tpl |-> {}, image |-> {}, templ |-> {}]

\* after TowerBot(c), lines 109-114 and 127-132, with self._thr = thr and n
\* the Listbox of the Perk Order tab as _build_gui fills it: one row for each
\* entry of the priority list, in its order, none selected
Listbox(priority) == [items |-> priority, sel |-> {}]

\* threads executing _loop, where the templates found are one of `tpls`, the
\* regions file is one of `files`, the tesseract binary is found or not, and
\* the cv_match call to come is one of `matches`
ConstructedIn(c, thr, n, tpls, files, found, matches) ==
    /\ cfg = c
    /\ REGION_FILE \in files
    /\ tesseract_found = found
    /\ attempted = <<>>
    /\ match \in matches
    /\ lb = Listbox(c.perk_priority)
    /\ _stop = FALSE
    /\ _thr = thr
    /\ workers = n
    /\ joining = FALSE
    /\ _next = [k \in NextKeys |-> perf_counter(0)]
    /\ TEMPLATES \in tpls
    /\ pc = "top"
    /\ now = perf_counter(0)
    /\ clock = 0
    /\ img = NoImg
    /\ taps = <<>>
    /\ triggered = FALSE
    /\ pre = [cfg |-> cfg, _next |-> _next, triggered |-> triggered, pc |-> "new",
              _stop |-> _stop, _thr |-> _thr, workers |-> workers,
              attempted |-> attempted, TEMPLATES |-> TEMPLATES]
    /\ writes = 0
    /\ call = NoCall
    /\ granted = <<>>

\* with all the templates or none, the regions file as config.py writes it,
\* and tesseract installed
Constructed(c, thr, n) ==
    ConstructedIn(c, thr, n, {{}, TemplateKeys}, {{DEFAULT_REGIONS}}, TRUE, {NoMatch})

\* after TowerBot(c) and the first start(), lines 138-142, with the worker
\* at the head of its first iteration
InitWith(c) == Constructed(c, "alive", 1)

Init == \E p \in PriorityLists : InitWith(BotConfig(p))

\* what a step finds
Found == [cfg |-> cfg, _next |-> _next, triggered |-> triggered, pc |-> pc,
          _stop |-> _stop, _thr |-> _thr, workers |-> workers,
          attempted |-> attempted, TEMPLATES |-> TEMPLATES]

\* a thread is executing _loop
Running == workers > 0

\* line 189: the test of `while not self._stop.is_set()`
loop_continuesMutantForever(stop_set) == TRUE
loop_continues(stop_set) == ~stop_set

\* what a call returns when it is made, Unread when it is not
Returns(made, outcomes) == IF made THEN outcomes ELSE {Unread}

\* the writes of a step of the worker, which goes on at `to`
Commit(m, to) ==
    /\ cfg' = m.cfg
    /\ _next' = m._next
    /\ img' = m.img
    /\ taps' = m.taps
    /\ triggered' = m.triggered
    /\ attempted' = IF m # Begin /\ pc \in NextKeys THEN Put(attempted, pc, now)
                    ELSE attempted
    /\ pre' = Found
    /\ pc' = to
    /\ UNCHANGED <<outside, clock, writes, call, granted, life>>

\* lines 201-327: the textual order of the loop body, as the step that
\* follows each step
FollowingMutantUpgradeFirst(at) ==
    CASE at = "top"   -> "upg"
      [] at = "upg"   -> "wave"
      [] at = "wave"  -> "retry"
      [] at = "retry" -> "def"
      [] at = "def"   -> "float"
      [] at = "float" -> "gems"
      [] at = "gems"  -> "perk"
      [] at = "perk"  -> "sleep"
Following(at) ==
    CASE at = "top"   -> "wave"
      [] at = "wave"  -> "retry"
      [] at = "retry" -> "def"
      [] at = "def"   -> "upg"
      [] at = "upg"   -> "float"
      [] at = "float" -> "gems"
      [] at = "gems"  -> "perk"
      [] at = "perk"  -> "sleep"

\* lines 195-199: where the iteration goes on after the state test
AfterTopMutantFallThrough(st) == Following("top")
AfterTop(st) == IF st = PERK_SELECTING THEN "sleep" ELSE Following("top")

\* lines 189-199: the head of an iteration, and the whole of one that finds
\* PERK_SELECTING
Top ==
    /\ pc = "top"
    /\ Running
    /\ loop_continues(_stop)
    /\ clock < MaxTime
    /\ now' = perf_counter(clock)
    /\ IF cfg.state = PERK_SELECTING
       THEN \E o1 \in image_to_string(PerkOutcomes), o2 \in image_to_string(PerkOutcomes),
               o3 \in image_to_string(PerkOutcomes), o4 \in image_to_string(PerkOutcomes) :
                Commit(handle_perk_selection(Begin, <<o1, o2, o3, o4>>),
                       AfterTop(cfg.state))
       ELSE Commit(Begin, AfterTop(cfg.state))

Wave ==
    /\ pc = "wave"
    /\ Running
    /\ \E out \in Returns(WaveDue(Begin, now), image_to_string(WaveOutcomes)) :
           Commit(WaveTask(Begin, now, out), Following("wave"))
    /\ UNCHANGED now

Retry ==
    /\ pc = "retry"
    /\ Running
    /\ LET wall == time_time(clock) IN
       \E r1 \in Returns(RetryDue(Begin, now, wall), image_to_string(RetryOutcomes)) :
       \E r2 \in Returns(RetryDue(Begin, now, wall) /\ ~RetryHit(r1),
                         image_to_string(RetryOutcomes)) :
           Commit(RetryTask(Begin, now, wall, r1, r2), Following("retry"))
    /\ UNCHANGED now

Defence ==
    /\ pc = "def"
    /\ Running
    /\ \E out \in Returns(DefenceDue(Begin, now),
                          IF DefenceUsesTemplate THEN Scores
                          ELSE image_to_string(DefenceOutcomes)) :
           Commit(DefenceTask(Begin, now, time_time(clock), out), Following("def"))
    /\ UNCHANGED now

Upgrade ==
    /\ pc = "upg"
    /\ Running
    /\ LET wall == time_time(clock) IN
       \E wh \in Returns(HealthChecked(Begin, now, wall), BOOLEAN) :
       \E wa \in Returns(AbsDefChecked(Begin, now, wall), BOOLEAN) :
           Commit(UpgradeTask(Begin, now, wall, wh, wa), Following("upg"))
    /\ UNCHANGED now

Float ==
    /\ pc = "float"
    /\ Running
    /\ Commit(FloatTask(Begin, now, time_time(clock)), Following("float"))
    /\ UNCHANGED now

Gems ==
    /\ pc = "gems"
    /\ Running
    /\ \E out \in Returns(GemsDue(Begin, now, time_time(clock)),
                          IF ClaimUsesTemplate THEN Scores
                          ELSE image_to_string(ClaimOutcomes)) :
           Commit(GemsTask(Begin, now, time_time(clock), out), Following("gems"))
    /\ UNCHANGED now

NewPerk ==
    /\ pc = "perk"
    /\ Running
    /\ \E out \in Returns(PerkDue(Begin, now, time_time(clock)),
                          IF NewPerkUsesTemplate THEN Scores
                          ELSE image_to_string(NewPerkOutcomes)) :
           Commit(NewPerkTask(Begin, now, time_time(clock), out), Following("perk"))
    /\ UNCHANGED now

\* time.sleep(0.1), lines 198 and 327, and the rest of the iteration's time
Sleep ==
    /\ pc = "sleep"
    /\ Running
    /\ \E d \in 1..MaxStep : clock' = clock + d
    /\ pc' = "top"
    /\ pre' = Found
    /\ UNCHANGED <<cfg, _next, outside, attempted, now, img, taps, triggered,
                   writes, call, granted, life>>

----------------------------------------------------------------------------
(* The controlling context, tower_bot_gui.py 52-92 *)

Toggles == {"retry_enabled", "health_enabled", "abs_def_enabled",
            "gems_enabled", "float_enabled", "perk_enabled"}
Stops   == {"health_stop", "abs_def_stop", "perk_stop"}
StopValues == {7}

\* the worker step that reads a field; no step of _loop reads perk_stop
ReadAt(attr) ==
    CASE attr = "retry_enabled" -> "retry"
      [] attr \in {"health_enabled", "abs_def_enabled",
                   "health_stop", "abs_def_stop"} -> "upg"
      [] attr = "float_enabled" -> "float"
      [] attr = "gems_enabled" -> "gems"
      [] attr = "perk_enabled" -> "perk"
      [] OTHER -> "top"

\* setattr(cfg, attr, value) by the controlling context, which reads no frame
\* and taps nothing.  The write is placed right before the worker step that
\* reads the field: no other step reads or writes it, so an earlier placement
\* in the same iteration shows the worker the same values.
Write(attr, value) ==
    /\ writes < MaxWrites
    /\ ~joining
    /\ pc = ReadAt(attr)
    /\ cfg' = [cfg EXCEPT ![attr] = value]
    /\ writes' = writes + 1
    /\ img' = NoImg
    /\ taps' = <<>>
    /\ pre' = Found
    /\ UNCHANGED <<_next, outside, attempted, pc, now, clock, triggered, call, granted, life>>

\* a check button, lines 52-57: setattr(cfg, attr, var.get())
SetToggle == \E attr \in Toggles : Write(attr, ~cfg[attr])

\* a spin box, lines 70-92: setattr(cfg, attr, int(box.get()))
SetStop == \E attr \in Stops : \E v \in StopValues : Write(attr, v)

Worker == Top \/ Wave \/ Retry \/ Defence \/ Upgrade \/ Float \/ Gems \/ NewPerk \/ Sleep

Next == Worker \/ SetToggle \/ SetStop

Spec == Init /\ [][Next]_vars

----------------------------------------------------------------------------
(* The perk selector on its own: the worker alone, started on          *)
(* BotConfig(perk_enabled = True, perk_priority = p)                   *)

PerkPriorityLists ==
    { <<>>,
      << <<"a">> >>,
      << <<"a">>, <<"b">> >>,
      << <<"b">>, <<"a">> >>,
      << <<"z">> >>,
      << <<"z">>, <<"b">>, <<"b">> >>,
      << <<"x","a">>, <<"y">> >>,
      << <<>>, <<"a">> >> }

InitPerk ==
    \E p \in PerkPriorityLists :
        InitWith([BotConfig(p) EXCEPT !.perk_enabled = TRUE])

SpecPerk == InitPerk /\ [][Worker]_vars

----------------------------------------------------------------------------
(* The cooldown tracker on its own: any sequence of can_act calls under a   *)
(* clock that does not go back                                              *)

\* keys of the override map, a key with only a "<key>_interval" attribute,
\* and a key with neither
DebounceKeys == {"retry", "perk", "wave", "zzz"}

\* can_act(cfg, key)
CanActCall ==
    \E key \in DebounceKeys :
        LET t == time_time(clock)
            r == can_act(cfg, key, t)
        IN  /\ cfg' = r.cfg
            /\ call' = [key |-> key, now |-> t, ret |-> r.ret,
                        last |-> IF key \in DOMAIN granted THEN {granted[key]} ELSE {}]
            /\ granted' = IF r.ret THEN Put(granted, key, t) ELSE granted
            /\ pre' = [Found EXCEPT !.pc = "can_act"]
            /\ UNCHANGED <<_next, outside, attempted, pc, now, clock, img, taps, triggered,
                           writes, life>>

\* time passes between two calls
Pass ==
    /\ clock < MaxTime
    /\ clock' = clock + 1
    /\ pre' = [Found EXCEPT !.pc = "pass"]
    /\ UNCHANGED <<cfg, _next, outside, attempted, pc, now, img, taps, triggered,
                   writes, call, granted, life>>

NextDebounce == CanActCall \/ Pass

SpecDebounce == Init /\ [][NextDebounce]_vars

----------------------------------------------------------------------------
(* Starting and stopping the worker, engine.py 138-147 and 189: the worker  *)
(* alone under start() and stop() calls of one controlling thread           *)

\* Thread.is_alive()
is_aliveMutantNever(thr) == FALSE
is_alive(thr) == thr = "alive"

\* lines 139 and 145: `self._thr and self._thr.is_alive()`
BusyMutantNever(thr) == FALSE
Busy(thr) == thr # "None" /\ is_alive(thr)

\* line 147: whether self._thr.join() returns
join_returnsMutantNoWait(thr) == TRUE
join_returns(thr) == ~is_alive(thr)

\* a call of the controlling thread, which reads no frame and taps nothing
Controls(name) ==
    /\ ~joining
    /\ pre' = [Found EXCEPT !.pc = name]
    /\ img' = NoImg
    /\ taps' = <<>>
    /\ UNCHANGED <<_next, TEMPLATES, tesseract_found, match, lb, attempted, now, clock,
                   triggered, writes, call, granted>>

\* start(), lines 138-142; the new thread begins _loop at line 186
Start ==
    /\ Controls("start")
    /\ UNCHANGED <<cfg, REGION_FILE>>
    /\ IF Busy(_thr)
       THEN UNCHANGED <<life, pc>>
       ELSE /\ _stop' = FALSE
            /\ _thr' = "alive"
            /\ workers' = workers + 1
            /\ pc' = "boot"
            /\ UNCHANGED joining

\* _loop before its first iteration, lines 186-187
Boot ==
    /\ pc = "boot"
    /\ Running
    /\ REGION_FILE' = load_regions(cfg, REGION_FILE).file
    /\ cfg' = load_regions(cfg, REGION_FILE).cfg
    /\ pc' = "top"
    /\ pre' = Found
    /\ img' = NoImg
    /\ taps' = <<>>
    /\ UNCHANGED <<_next, TEMPLATES, tesseract_found, match, lb, attempted, now, clock,
                   triggered, writes, call, granted, life>>

\* the Save button, tower_bot_gui.py 183-193: the entry boxes go to cfg and
\* to regions.json
_update_coords ==
    /\ Controls("coords")
    /\ \E data \in {Calibrated} :
           /\ cfg' = [key \in DOMAIN cfg |->
                         IF key \in DOMAIN data THEN data[key] ELSE cfg[key]]
           /\ REGION_FILE' = {data}
    /\ UNCHANGED <<pc, life>>

\* stop() up to its join(), lines 144-147
StopCall ==
    /\ Controls("stop")
    /\ UNCHANGED <<cfg, pc, REGION_FILE>>
    /\ IF Busy(_thr)
       THEN _stop' = TRUE /\ joining' = TRUE /\ UNCHANGED <<_thr, workers>>
       ELSE UNCHANGED life

\* line 147: join() returns and with it stop()
Joined ==
    /\ joining
    /\ join_returns(_thr)
    /\ joining' = FALSE
    /\ pre' = [Found EXCEPT !.pc = "joined"]
    /\ img' = NoImg
    /\ taps' = <<>>
    /\ UNCHANGED <<cfg, _next, outside, attempted, pc, now, clock, triggered,
                   writes, call, granted, _stop, _thr, workers>>

\* line 189: the worker finds the event set at the loop head and _loop ends
Exit ==
    /\ pc = "top"
    /\ Running
    /\ ~loop_continues(_stop)
    /\ workers' = workers - 1
    /\ _thr' = IF workers = 1 THEN "dead" ELSE _thr
    /\ pre' = [Found EXCEPT !.pc = "exit"]
    /\ img' = NoImg
    /\ taps' = <<>>
    /\ UNCHANGED <<cfg, _next, outside, attempted, pc, now, clock, triggered,
                   writes, call, granted, _stop, joining>>

\* the second click of a region capture, tower_bot_gui.py 248-286: the
\* region goes to cfg and to the entry boxes, not to regions.json
Captured == <<700, 1300, 400, 80>>
_on_capture_click ==
    /\ Controls("capture")
    /\ \E attr \in {"wave_region"} : cfg' = [cfg EXCEPT ![attr] = Captured]
    /\ UNCHANGED <<pc, life, REGION_FILE>>

\* after TowerBot(BotConfig()), before any start()
InitLife ==
    \E p \in PriorityLists :
        ConstructedIn(BotConfig(p), "None", 0, {{}, TemplateKeys}, RegionFiles, TRUE,
                      {NoMatch})

NextLife == Worker \/ Boot \/ Exit \/ Start \/ StopCall \/ Joined

SpecLife == InitLife /\ [][NextLife]_vars

\* the worker thread is scheduled, every call it makes returns, and a join
\* on a finished thread returns
FairSpecLife == SpecLife /\ WF_vars(Worker \/ Boot \/ Exit) /\ WF_vars(Joined)

----------------------------------------------------------------------------
(* The same with the Setup tab of the GUI at work: regions are captured and *)
(* saved between the start() and stop() calls                               *)

NextRegions == NextLife \/ _update_coords \/ _on_capture_click

SpecRegions == InitLife /\ [][NextRegions]_vars

----------------------------------------------------------------------------
(* A call that raises, ocr_utils.py 28-32 and engine.py 185-327: ocr_text   *)
(* handles TesseractNotFoundError only and _loop has no try statement, so   *)
(* any other exception of image_to_string leaves ocr_text, then _loop, and  *)
(* the thread ends                                                          *)

\* the outcome of pytesseract.image_to_string when the tesseract run fails
TesseractError == <<"TesseractError">>

\* the step at `at` reaches its first ocr_text call
CallsOcr(at) ==
    LET wall == time_time(clock)
    IN  CASE at = "wave"  -> WaveDue(Begin, now)
          [] at = "retry" -> RetryDue(Begin, now, wall)
          [] at = "def"   -> DefenceDue(Begin, now) /\ ~DefenceUsesTemplate
          [] at = "gems"  -> GemsDue(Begin, now, wall) /\ ~ClaimUsesTemplate
          [] at = "perk"  -> PerkDue(Begin, now, wall) /\ ~NewPerkUsesTemplate
          [] OTHER        -> FALSE

\* what the step at `at` has written when it makes that call, with the
\* call's outcome as its read
UpTo(at, outcome) ==
    LET wall == time_time(clock)
    IN  CASE at = "wave" ->
                 [Begin EXCEPT !._next["wave"] = now + cfg.wave_interval,
                               !.img.wave = {outcome}]
          [] at = "retry" ->
                 [Begin EXCEPT !.cfg = can_act(@, "retry", wall).cfg,
                               !._next["retry"] = now + cfg.retry_interval,
                               !.img.retry1 = {outcome}]
          [] at = "def" ->
                 [Begin EXCEPT !._next["def"] = now + cfg.defence_interval,
                               !.img.defence_text = {outcome}]
          [] at = "gems" ->
                 [Begin EXCEPT !.cfg = can_act(@, "gems", wall).cfg,
                               !._next["gems"] = now + cfg.gems_interval,
                               !.img.claim_text = {outcome}]
          [] at = "perk" ->
                 [Begin EXCEPT !.cfg = can_act(@, "perk", wall).cfg,
                               !._next["perk"] = now + cfg.perk_interval,
                               !.triggered = FALSE,
                               !.img.new_perk_text = {outcome}]

\* image_to_string raises TesseractError in a task's first ocr_text call: the
\* exception is handled nowhere and the thread ends there
Raises ==
    /\ Running
    /\ tesseract_found
    /\ CallsOcr(pc)
    /\ LET m == UpTo(pc, TesseractError)
       IN  /\ cfg' = m.cfg
           /\ _next' = m._next
           /\ img' = m.img
           /\ taps' = m.taps
           /\ triggered' = m.triggered
    /\ attempted' = Put(attempted, pc, now)
    /\ pre' = Found
    /\ workers' = workers - 1
    /\ _thr' = IF workers = 1 THEN "dead" ELSE _thr
    /\ pc' = "top"
    /\ UNCHANGED <<outside, now, clock, writes, call, granted, _stop, joining>>

NextFail == Worker \/ Raises

SpecFail == Init /\ [][NextFail]_vars

----------------------------------------------------------------------------
(* The worker alone on a machine without the tesseract binary, started on   *)
(* BotConfig(perk_enabled = True)                                           *)

InitNoOcr ==
    \E p \in PriorityLists :
        ConstructedIn([BotConfig(p) EXCEPT !.perk_enabled = TRUE], "alive", 1,
                      {{}, TemplateKeys}, {{DEFAULT_REGIONS}}, FALSE, {NoMatch})

SpecNoOcr == InitNoOcr /\ [][Worker]_vars

----------------------------------------------------------------------------
(* The worker started on BotConfig(perk_enabled = True) while the spin      *)
(* boxes of the stop thresholds are used                                    *)

InitStops ==
    \E p \in PriorityLists :
        InitWith([BotConfig(p) EXCEPT !.perk_enabled = TRUE])

NextStops == Worker \/ SetStop

SpecStops == InitStops /\ [][NextStops]_vars

----------------------------------------------------------------------------
(* The worker alone with every toggle on, where an iteration may take less  *)
(* than a second                                                            *)

\* time.sleep(0.1), lines 198 and 327, at the end of an iteration that began
\* and ends within the same second
Nap ==
    /\ pc = "sleep"
    /\ Running
    /\ pc' = "top"
    /\ pre' = Found
    /\ UNCHANGED <<cfg, _next, outside, attempted, now, clock, img, taps, triggered,
                   writes, call, granted, life>>

InitTicks ==
    \E p \in PriorityLists :
        InitWith([BotConfig(p) EXCEPT !.float_enabled = TRUE,
                                      !.perk_enabled = TRUE])

NextTicks == Worker \/ Nap

SpecTicks == InitTicks /\ [][NextTicks]_vars

----------------------------------------------------------------------------
(* The worker alone, started on BotConfig(perk_enabled = True), with any    *)
(* of the three template files present                                      *)

InitTemplates ==
    \E p \in PriorityLists :
        ConstructedIn([BotConfig(p) EXCEPT !.perk_enabled = TRUE], "alive", 1,
                      SUBSET TemplateKeys, {{DEFAULT_REGIONS}}, TRUE, {NoMatch})

SpecTemplates == InitTemplates /\ [][Worker]_vars

----------------------------------------------------------------------------
(* cv_match, engine.py 116-123.  An array is its shape (rows, columns),     *)
(* the image its pixels come from and the shape that image had; the score   *)
(* of cv2.matchTemplate is kept as the two arrays it is computed from.      *)

\* side lengths of the crops and templates of the model, in pixels
Sides == {20, 40, 50, 100}
Shapes == Sides \X Sides

\* a crop of the frame or a template as read from its file
ndarray(of, shape) == [of |-> of, shape |-> shape, from |-> shape]

\* cv2.resize(src, dsize, interpolation = INTER_AREA): dsize is (width, height)
cv2_resize(src, dsize) == [src EXCEPT !.shape = <<dsize[2], dsize[1]>>]

\* float(cv2.matchTemplate(image, templ, TM_CCOEFF_NORMED).max())
cv2_matchTemplate(image, templ) == [image |-> image, templ |-> templ]

cv_matchMutantResizeCrop(sub, tpl) ==
    LET h_sub == sub.shape[1]
        w_sub == sub.shape[2]
        h_tpl == tpl.shape[1]
        w_tpl == tpl.shape[2]
    IN  cv2_matchTemplate(IF <<h_sub, w_sub>> # <<h_tpl, w_tpl>>
                          THEN cv2_resize(sub, <<w_tpl, h_tpl>>)
                          ELSE sub,
                          tpl)
cv_match(sub, tpl) ==
    LET h_sub == sub.shape[1]
        w_sub == sub.shape[2]
        h_tpl == tpl.shape[1]
        w_tpl == tpl.shape[2]
    IN  cv2_matchTemplate(sub,
                          IF <<h_sub, w_sub>> # <<h_tpl, w_tpl>>
                          THEN cv2_resize(tpl, <<w_sub, h_sub>>)
                          ELSE tpl)

\* the crops and templates a cv_match call may be given
MatchInputs ==
    { [sub |-> {ndarray("sub", s)}, tpl |-> {ndarray("tpl", t)},
       image |-> {}, templ |-> {}] : s \in Shapes, t \in Shapes }

\* cv_match(sub, tpl) on the arrays at hand
CvMatch ==
    /\ match.sub # {}
    /\ match.image = {}
    /\ \E sub \in match.sub, tpl \in match.tpl :
           LET score == cv_match(sub, tpl)
           IN  match' = [match EXCEPT !.image = {score.image},
                                      !.templ = {score.templ}]
    /\ UNCHANGED <<cfg, _next, TEMPLATES, REGION_FILE, tesseract_found, lb, attempted,
                   pc, now, clock, img, taps, triggered, pre, writes, call,
                   granted, life>>

InitMatch ==
    \E p \in PriorityLists :
        ConstructedIn(BotConfig(p), "None", 0, {TemplateKeys}, {{DEFAULT_REGIONS}},
                      TRUE, MatchInputs)

SpecMatch == InitMatch /\ [][CvMatch]_vars

----------------------------------------------------------------------------
(* load_regions on its own, as run_bot.py 15 and tower_bot_gui.py 295 call  *)
(* it before the bot is built: regions.json is missing or holds any of the  *)
(* entries below                                                            *)

\* a JSON object with the one entry key: v for the v of vs, empty when vs is
Entry(key, vs) == [k \in {key : v \in vs} |-> CHOOSE v \in vs : TRUE]

\* what regions.json may hold: two regions, two tap points, a key that names
\* another field of BotConfig, a key that names no field
LoadFiles ==
    { {} } \cup
    { { Entry("wave_region", w) @@ Entry("float_gem_coord", f)
          @@ Entry("def_tab_tap_coord", d) @@ Entry("perk_priority", p)
          @@ Entry("bogus_region", b) } :
        w \in { {}, {<<740, 1310, 380, 70>>}, {<<0, 0, 10, 10>>} },
        f \in { {}, {<<950, 750>>} },
        d \in { {}, {<<500, 2400>>} },
        p \in { {}, {<< <<"b">>, <<"a">> >>}, {<<>>} },
        b \in { {}, {<<1, 2, 3, 4>>} } }

\* load_regions(cfg)
Load ==
    /\ pre.pc = "new"
    /\ cfg' = load_regions(cfg, REGION_FILE).cfg
    /\ REGION_FILE' = load_regions(cfg, REGION_FILE).file
    /\ pre' = [Found EXCEPT !.pc = "load"]
    /\ UNCHANGED <<_next, TEMPLATES, tesseract_found, match, lb, attempted, pc, now,
                   clock, img, taps, triggered, writes, call, granted, life>>

InitLoad ==
    \E p \in PriorityLists :
        ConstructedIn(BotConfig(p), "None", 0, {TemplateKeys}, LoadFiles, TRUE,
                      {NoMatch})

SpecLoad == InitLoad /\ [][Load]_vars


----------------------------------------------------------------------------
(* The perk-order editor of the GUI (tower_bot_gui.py, Perk Order tab) *)

\* Listbox.curselection(): the selected indices, ascending
curselection(l) == l.sel

\* sel[0] of a non-empty curselection
FirstOf(sel) == CHOOSE i \in sel : \A j \in sel : i <= j

\* Listbox.size()
lb_size(l) == Len(l.items)

\* Listbox.get(i): the row at index i, counted from 0
lb_get(l, i) == l.items[i + 1]

\* Listbox.delete(i): the row goes, with its selection; the rows below move up
lb_delete(l, i) ==
    [items |-> SubSeq(l.items, 1, i) \o SubSeq(l.items, i + 2, Len(l.items)),
     sel   |-> {IF j > i THEN j - 1 ELSE j : j \in l.sel \ {i}}]

\* Listbox.insert(i, v): v becomes the row at index i (the last row when i is
\* past the end); the rows from there on move down, selected or not
lb_insert(l, i, v) ==
    LET at == IF i > Len(l.items) THEN Len(l.items) ELSE i
    IN  [items |-> SubSeq(l.items, 1, at) \o <<v>>
                       \o SubSeq(l.items, at + 1, Len(l.items)),
         sel   |-> {IF j >= at THEN j + 1 ELSE j : j \in l.sel}]

\* Listbox.select_set(i)
lb_select_set(l, i) ==
    [l EXCEPT !.sel = IF i \in 0..(Len(l.items) - 1) THEN @ \cup {i} ELSE @]

\* the user clicks row i of the list: that row alone is selected
Select(i) ==
    /\ pre.pc = "new"
    /\ i \in 0..(lb_size(lb) - 1)
    /\ lb' = [lb EXCEPT !.sel = {i}]
    /\ UNCHANGED <<cfg, _next, TEMPLATES, REGION_FILE, tesseract_found, match,
                   attempted, pc, now, clock, img, taps, triggered, pre, writes,
                   call, granted, life>>

\* the Up button
_move_up ==
    LET sel == curselection(lb)
        i   == FirstOf(sel)
        v   == lb_get(lb, i)
    IN  /\ pre.pc = "new"
        /\ sel # {}
        /\ i > 0
        /\ lb' = lb_select_set(lb_insert(lb_delete(lb, i), i - 1, v), i - 1)
        /\ UNCHANGED <<cfg, _next, TEMPLATES, REGION_FILE, tesseract_found, match,
                       attempted, pc, now, clock, img, taps, triggered, pre,
                       writes, call, granted, life>>

\* the Down button
_move_down ==
    LET sel == curselection(lb)
        i   == FirstOf(sel)
        v   == lb_get(lb, i)
    IN  /\ pre.pc = "new"
        /\ sel # {}
        /\ i < lb_size(lb) - 1
        /\ lb' = lb_select_set(lb_insert(lb_delete(lb, i), i + 1, v), i + 1)
        /\ UNCHANGED <<cfg, _next, TEMPLATES, REGION_FILE, tesseract_found, match,
                       attempted, pc, now, clock, img, taps, triggered, pre,
                       writes, call, granted, life>>

\* a priority list of five perks, the bot not started
InitPerkOrder ==
    ConstructedIn(BotConfig(<< <<"a">>, <<"b">>, <<"c">>, <<"d">>, <<"e">> >>),
                  "None", 0, {TemplateKeys}, {{DEFAULT_REGIONS}}, TRUE, {NoMatch})

NextPerkOrder == (\E i \in 0..4 : Select(i)) \/ _move_up \/ _move_down

\* the editor alone
SpecPerkOrder == InitPerkOrder /\ [][NextPerkOrder]_vars

----------------------------------------------------------------------------
(* Properties.  `pre` is what the latest step found, so a state shows one   *)
(* step: what it found, what it read (img), what it tapped (taps), what it  *)
(* left.                                                                    *)

\* the latest step was the worker's step at `at`
Stepped(at) == pre.pc = at /\ pc # at

\* the latest step was the head of a tick that found PERK_SELECTING
HandledPerks == Stepped("top") /\ pre.cfg.state = PERK_SELECTING

TaskPcs == {"wave", "retry", "def", "upg", "float", "gems", "perk"}

\* the checks of the seven tasks
TaskReads == {"wave", "retry1", "retry2", "defence_score", "defence_text",
              "health", "abs_def", "claim_score", "claim_text",
              "new_perk_score", "new_perk_text"}

\* C1: a tick that begins in PERK_SELECTING runs the perk-selection handler
\* and nothing else: it goes straight on to the sleep, none of the seven
\* tasks reads the frame, and the cooldown ledger, the next-eligible times
\* and wave_number are as the tick found them; no task starts while the
\* state is PERK_SELECTING.
C1_OnlyHandlerRuns ==
    /\ HandledPerks =>
          /\ pc = "sleep"
          /\ \A f \in TaskReads : img[f] = {}
          /\ img.perk # {}
          /\ Len(taps) <= 1
          /\ cfg._cooldown = pre.cfg._cooldown
          /\ _next = pre._next
          /\ cfg.wave_number = pre.cfg.wave_number
    /\ pc \in TaskPcs => cfg.state # PERK_SELECTING

C1_Witness ==
    /\ HandledPerks
    /\ pre.cfg._cooldown # <<>>
    /\ \E k \in NextKeys : pre._next[k] > 0
    /\ pre.cfg.wave_number > 0

\* C2: a tick that begins in PERK_SELECTING ends in IDLE, with or without a
\* match, so PERK_SELECTING is left after one handling pass.
C2_HandlerEndsIdle ==
    /\ HandledPerks => cfg.state = IDLE
    /\ img.perk # {} => cfg.state = IDLE

C2_Witness == HandledPerks /\ taps = <<>> /\ cfg.state = IDLE

\* the (priority index, region number) pairs of a pass where the region's
\* lowercased text contains the phrase
MatchingPairs ==
    LET prio == pre.cfg.perk_priority
    IN  { pr \in (1..Len(prio)) \X (1..4) :
            \E outs \in img.perk :
                Contains(prio[pr[1]], lower(ocr_text(outs[pr[2]]))) }

\* the lexicographically least pairs of a set
LexLeast(pairs) ==
    { a \in pairs : \A b \in pairs : a[1] < b[1] \/ (a[1] = b[1] /\ a[2] <= b[2]) }

\* the regions a pass tapped, by number
TappedRegions ==
    { i \in 1..4 : \E k \in 1..Len(taps) :
          taps[k] = Centre(PerkRegions(pre.cfg)[i]) }

C4_OneTapAtCentre ==
    HandledPerks =>
        IF MatchingPairs # {}
        THEN /\ Len(taps) = 1
             /\ \A pr \in LexLeast(MatchingPairs) :
                    LET r == PerkRegions(pre.cfg)[pr[2]]
                    IN  taps[1] = << r[1] + (r[3] \div 2), r[2] + (r[4] \div 2) >>
        ELSE taps = <<>>

C4_Witness ==
    /\ HandledPerks
    /\ MatchingPairs # {}
    /\ taps = << <<159 + 562, 553 + 121>> >>

\* the new-perk task of the latest step was enabled and eligible
NewPerkEligible ==
    /\ Stepped("perk")
    /\ pre.cfg.perk_enabled
    /\ now >= pre._next["perk"]
    /\ time_time(clock) >= Get(pre.cfg._cooldown, "perk", 0)

\* the new-perk detector was evaluated by the latest step and was positive
DetectorFired ==
    \/ \E score \in img.new_perk_score : score >= 70
    \/ \E txt \in img.new_perk_text : Contains(kw_new_perk, lower(ocr_text(txt)))

DetectorRead == img.new_perk_score # {} \/ img.new_perk_text # {}

\* C5: when the new-perk task is enabled and eligible in an IDLE tick, the
\* state becomes PERK_SELECTING exactly when the detector is positive, with
\* one tap at the centre of new_perk_region; a negative detection taps
\* nothing and leaves the state.
C5_NewPerkEntry ==
    NewPerkEligible =>
        /\ pre.cfg.state = IDLE
        /\ DetectorRead
        /\ cfg.state = PERK_SELECTING <=> DetectorFired
        /\ DetectorFired =>
              LET r == pre.cfg.new_perk_region
              IN  taps = << << r[1] + (r[3] \div 2), r[2] + (r[4] \div 2) >> >>
        /\ ~DetectorFired => taps = <<>> /\ cfg.state = IDLE

C5_Witness ==
    /\ NewPerkEligible
    /\ DetectorFired
    /\ cfg.state = PERK_SELECTING
    /\ taps = << <<483 + 252, 194 + 36>> >>

\* the latest step took the state from IDLE to PERK_SELECTING
EnteredPerkSelecting == pre.cfg.state = IDLE /\ cfg.state = PERK_SELECTING

\* C6 as stated: entry into PERK_SELECTING is edge-triggered, so an entry
\* is made only when the detector did not fire at its previous evaluation.
C6_EdgeTriggeredEntry == EnteredPerkSelecting => ~pre.triggered

\* C6 as amended: entry is made at every evaluation of the detector that
\* fires, whether or not it fired at the evaluation before; an entry is never
\* made without such an evaluation, and a tick that begins in PERK_SELECTING
\* does not evaluate the detector.
C6_EntryAtEveryFiringEvaluation ==
    /\ NewPerkEligible /\ DetectorFired => EnteredPerkSelecting
    /\ EnteredPerkSelecting => NewPerkEligible /\ DetectorFired /\ triggered
    /\ HandledPerks => ~DetectorRead /\ triggered = pre.triggered

C6_Witness ==
    /\ EnteredPerkSelecting
    /\ NewPerkEligible
    /\ DetectorFired
    /\ pre.triggered

\* C7: the state starts IDLE and is always IDLE or PERK_SELECTING; it
\* changes only from IDLE to PERK_SELECTING in the new-perk step and from
\* PERK_SELECTING to IDLE in the perk-selection handler.
C7_TwoStatesTwoTransitions ==
    /\ cfg.state \in {IDLE, PERK_SELECTING}
    /\ pre.cfg.state \in {IDLE, PERK_SELECTING}
    /\ pre.pc = "new" => cfg.state = IDLE
    /\ cfg.state # pre.cfg.state =>
          \/ Stepped("perk") /\ EnteredPerkSelecting
          \/ HandledPerks /\ cfg.state = IDLE

C7_Witness == HandledPerks /\ cfg.state = IDLE /\ triggered /\ clock > 0

\* the interval of each key of DebounceKeys: 2.0 and 3.0 from the override
\* map, wave_interval = 1.0, and 0 for a key that has neither
KeyInterval == [retry |-> 2, perk |-> 3, wave |-> 1, zzz |-> 0]

\* the latest step was a can_act call
Called == pre.pc = "can_act"

\* C8: a call that returns true comes at least the key's interval after the
\* call before it that returned true for that key.
C8_OncePerInterval ==
    Called /\ call.ret =>
        \A last \in call.last : call.now - last >= KeyInterval[call.key]

C8_Witness ==
    /\ Called
    /\ call.ret
    /\ call.key = "perk"
    /\ \E last \in call.last : call.now - last = 3

\* C9: a call that returns true sets the key's ledger entry to now + interval
\* and leaves every other entry; a call that returns false leaves the ledger
\* and all of cfg; no entry ever goes down.
C9_LedgerEffect ==
    /\ Called /\ call.ret =>
          /\ DOMAIN cfg._cooldown = DOMAIN pre.cfg._cooldown \cup {call.key}
          /\ cfg._cooldown[call.key] = call.now + KeyInterval[call.key]
          /\ \A k \in DOMAIN pre.cfg._cooldown \ {call.key} :
                 cfg._cooldown[k] = pre.cfg._cooldown[k]
    /\ Called /\ ~call.ret => cfg = pre.cfg
    /\ \A k \in DOMAIN pre.cfg._cooldown :
          k \in DOMAIN cfg._cooldown /\ cfg._cooldown[k] >= pre.cfg._cooldown[k]

C9_Witness ==
    /\ Called
    /\ ~call.ret
    /\ call.key = "perk"
    /\ "retry" \in DOMAIN cfg._cooldown
    /\ cfg._cooldown["perk"] > call.now

\* the defence-tab check ran in the latest step
DefenceChecked == Stepped("def") /\ now >= pre._next["def"]

\* what the defence-tab detector reported
DefenceReportedActive ==
    \/ \E score \in img.defence_score : score >= 70
    \/ \E txt \in img.defence_text :
          LET low == lower(ocr_text(txt))
          IN  /\ Contains(kw_defense, low) \/ Contains(kw_defence, low)
              /\ Contains(kw_upgrade, low)

\* C10: when the defence-tab check runs, an active tab is never tapped and
\* consumes no cooldown; an inactive tab is tapped exactly once, at
\* def_tab_tap_coord, when the "def" cooldown allows.
C10_DefenceTabIdempotent ==
    DefenceChecked =>
        /\ img.defence_score # {} \/ img.defence_text # {}
        /\ DefenceReportedActive =>
              taps = <<>> /\ cfg._cooldown = pre.cfg._cooldown
        /\ /\ ~DefenceReportedActive
           /\ time_time(clock) >= Get(pre.cfg._cooldown, "def", 0)
           => taps = << pre.cfg.def_tab_tap_coord >>

C10_Witness ==
    /\ DefenceChecked
    /\ DefenceReportedActive
    /\ time_time(clock) >= Get(pre.cfg._cooldown, "def", 0)
    /\ "def" \in DOMAIN pre.cfg._cooldown
    /\ taps = <<>>

\* the upgrade slot was eligible in the latest step
UpgradeEligible ==
    /\ Stepped("upg")
    /\ now >= pre._next["upg"]
    /\ time_time(clock) >= Get(pre.cfg._cooldown, "upg", 0)

\* the explicit centre of a region
Mid(r) == << r[1] + (r[3] \div 2), r[2] + (r[4] \div 2) >>

\* the points the latest step tapped
Tapped == { taps[k] : k \in 1..Len(taps) }

\* C11: with wave_number at or above health_stop the upgrade step does not
\* consult the health region and does not tap it; likewise for abs_def_stop
\* and the absolute-defence region.
C11_StopThresholds ==
    Stepped("upg") =>
        /\ pre.cfg.wave_number >= pre.cfg.health_stop =>
              img.health = {} /\ Mid(pre.cfg.health_region) \notin Tapped
        /\ pre.cfg.wave_number >= pre.cfg.abs_def_stop =>
              img.abs_def = {} /\ Mid(pre.cfg.abs_def_region) \notin Tapped

C11_Witness ==
    /\ UpgradeEligible
    /\ pre.cfg.health_enabled
    /\ pre.cfg.wave_number = pre.cfg.health_stop
    /\ taps = << Mid(pre.cfg.abs_def_region) >>

\* the wave check ran in the latest step
WaveChecked == Stepped("wave") /\ now >= pre._next["wave"]

\* the maximal runs of digits of a text, as <<first, last>> positions
DigitRuns(txt) ==
    { run \in (1..Len(txt)) \X (1..Len(txt)) :
        /\ run[1] <= run[2]
        /\ \A k \in run[1]..run[2] : txt[k] \in Digits
        /\ run[1] = 1 \/ txt[run[1] - 1] \notin Digits
        /\ run[2] = Len(txt) \/ txt[run[2] + 1] \notin Digits }

\* the runs that touch no letter, digit or underscore on either side
StandaloneRuns(txt) ==
    { run \in DigitRuns(txt) :
        /\ run[1] = 1 \/ txt[run[1] - 1] \notin WordChars
        /\ run[2] = Len(txt) \/ txt[run[2] + 1] \notin WordChars }

\* the leftmost runs of a set
Leftmost(runs) == { a \in runs : \A b \in runs : a[1] <= b[1] }

\* the decimal value of a run
RunValue(txt, run) == int(SubSeq(txt, run[1], run[2]))

\* C12 as stated: a due wave check sets wave_number to the value of the first
\* run of digits of the text, and leaves it when the text has no digit.
C12_FirstDigitRun ==
    WaveChecked =>
        \A out \in img.wave :
            LET txt == ocr_text(out)
            IN  IF DigitRuns(txt) # {}
                THEN \A run \in Leftmost(DigitRuns(txt)) :
                         cfg.wave_number = RunValue(txt, run)
                ELSE cfg.wave_number = pre.cfg.wave_number

\* C12 as amended: a due wave check sets wave_number to the value of the
\* first run of digits that touches no letter, digit or underscore, and
\* leaves it when the text has no such run; "wave 42 " gives 42.
C12_FirstStandaloneDigitRun ==
    WaveChecked =>
        /\ img.wave # {}
        /\ \A out \in img.wave :
            LET txt == ocr_text(out)
            IN  /\ IF StandaloneRuns(txt) # {}
                   THEN \A run \in Leftmost(StandaloneRuns(txt)) :
                            cfg.wave_number = RunValue(txt, run)
                   ELSE cfg.wave_number = pre.cfg.wave_number
                /\ txt = <<"w","a","v","e"," ","4","2">> => cfg.wave_number = 42

C12_Witness ==
    /\ WaveChecked
    /\ pre.cfg.wave_number = 7
    /\ img.wave = { <<"W","a","v","e"," ","4","2"," ">> }
    /\ cfg.wave_number = 42

\* the order of the tasks of an IDLE tick
TaskOrder == <<"wave", "retry", "def", "upg", "float", "gems", "perk">>

\* C13: the steps of an IDLE tick come in the order wave, retry, defence
\* tab, upgrades (health read before absolute defence), floating gem, gems
\* claim, new perk; when the upgrade step runs, the wave step of the same
\* tick is behind it, and its stop-threshold checks use the wave_number that
\* step left.
C13_FixedTaskOrder ==
    /\ Stepped("top") /\ pre.cfg.state = IDLE => pc = TaskOrder[1]
    /\ \A k \in 1..6 : Stepped(TaskOrder[k]) => pc = TaskOrder[k + 1]
    /\ Stepped("perk") => pc = "sleep"
    /\ Stepped("upg") =>
          /\ _next["wave"] > now
          /\ UpgradeEligible =>
                /\ img.health # {} <=>
                      cfg.health_enabled /\ cfg.wave_number < cfg.health_stop
                /\ img.abs_def # {} <=>
                      cfg.abs_def_enabled /\ cfg.wave_number < cfg.abs_def_stop
          /\ taps # <<>> /\ img.health = {TRUE} =>
                taps[1] = Mid(cfg.health_region)

\* the first tick: wave_number starts at 0, the wave step reads 7, and the
\* upgrade step of that tick finds the health threshold 7 reached
C13_Witness ==
    /\ UpgradeEligible
    /\ clock = 0
    /\ cfg.wave_number = 7
    /\ cfg.health_stop = 7
    /\ cfg.health_enabled
    /\ img.health = {}
    /\ img.abs_def = {TRUE}

\* the retry task of the latest step was enabled and eligible
RetryEligible ==
    /\ Stepped("retry")
    /\ pre.cfg.retry_enabled
    /\ now >= pre._next["retry"]
    /\ time_time(clock) >= Get(pre.cfg._cooldown, "retry", 0)

\* a retry region that was read and whose text contains "retry"
SaysRetry(reads) == \E out \in reads : Contains(kw_retry, lower(ocr_text(out)))

\* C14: an enabled and eligible retry task reads retry1 and then, only when
\* retry1 does not say "retry", retry2; it taps the centre of the first of
\* the two that says "retry", so at most once, and nothing when neither does;
\* a retry task that is not enabled and eligible reads and taps nothing.
C14_RetryFirstRegion ==
    /\ RetryEligible =>
          /\ img.retry1 # {}
          /\ SaysRetry(img.retry1) =>
                img.retry2 = {} /\ taps = << Mid(pre.cfg.retry1_region) >>
          /\ ~SaysRetry(img.retry1) =>
                /\ img.retry2 # {}
                /\ SaysRetry(img.retry2) => taps = << Mid(pre.cfg.retry2_region) >>
                /\ ~SaysRetry(img.retry2) => taps = <<>>
    /\ Stepped("retry") /\ ~RetryEligible =>
          img.retry1 = {} /\ img.retry2 = {} /\ taps = <<>>

C14_Witness ==
    /\ RetryEligible
    /\ ~SaysRetry(img.retry1)
    /\ SaysRetry(img.retry2)
    /\ taps = << <<256 + 142, 1920 + 40>> >>

\* the taps the upgrade step owes: health, then absolute defence
UpgradeTapsOwed ==
    LET c == pre.cfg
        h == IF c.health_enabled /\ c.wave_number < c.health_stop
                /\ img.health = {TRUE}
             THEN << Mid(c.health_region) >> ELSE <<>>
        a == IF c.abs_def_enabled /\ c.wave_number < c.abs_def_stop
                /\ img.abs_def = {TRUE}
             THEN << Mid(c.abs_def_region) >> ELSE <<>>
    IN  h \o a

\* C15: the two upgrades share the one slot "upg": when it is eligible the
\* ledger entry "upg" and _next["upg"] are consumed once, and each upgrade
\* is tapped exactly when its toggle is on, wave_number is below its
\* threshold and its region shows white, both in the same step if both
\* hold; when the slot is not eligible neither is read or tapped.
C15_SharedUpgradeSlot ==
    /\ UpgradeEligible =>
          /\ taps = UpgradeTapsOwed
          /\ _next["upg"] = now + pre.cfg.upgrade_interval
          /\ cfg._cooldown = Put(pre.cfg._cooldown, "upg", time_time(clock) + 1)
          /\ img.health # {} <=>
                pre.cfg.health_enabled /\ pre.cfg.wave_number < pre.cfg.health_stop
          /\ img.abs_def # {} <=>
                pre.cfg.abs_def_enabled /\ pre.cfg.wave_number < pre.cfg.abs_def_stop
    /\ Stepped("upg") /\ ~UpgradeEligible =>
          /\ taps = <<>>
          /\ img.health = {} /\ img.abs_def = {}
          /\ cfg = pre.cfg /\ _next = pre._next
    /\ DOMAIN cfg._cooldown \subseteq {"retry", "def", "upg", "gems", "float", "perk"}

C15_Witness ==
    /\ UpgradeEligible
    /\ taps = << <<400 + 135, 1785 + 22>>, <<1088 + 138, 2065 + 19>> >>

\* the floating-gem task of the latest step was enabled and eligible
FloatEligible ==
    /\ Stepped("float")
    /\ pre.cfg.float_enabled
    /\ now >= pre._next["float"]
    /\ time_time(clock) >= Get(pre.cfg._cooldown, "float", 0)

\* C16: the floating-gem step taps float_gem_coord exactly once when the
\* toggle is on and interval and cooldown have elapsed, and nothing
\* otherwise; it reads no region either way.
C16_BlindFloatTap ==
    Stepped("float") =>
        /\ img = NoImg
        /\ FloatEligible => taps = << pre.cfg.float_gem_coord >>
        /\ ~FloatEligible => taps = <<>>

C16_Witness == FloatEligible /\ taps = << <<960, 748>> >> /\ clock > 0

\* the gems-claim task of the latest step was enabled and eligible
GemsEligible ==
    /\ Stepped("gems")
    /\ pre.cfg.gems_enabled
    /\ now >= pre._next["gems"]
    /\ time_time(clock) >= Get(pre.cfg._cooldown, "gems", 0)

\* what the claim detector reported
ClaimPositive ==
    \/ \E score \in img.claim_score : score >= 70
    \/ \E txt \in img.claim_text : Contains(kw_claim, lower(ocr_text(txt)))

\* C17: an enabled and eligible gems-claim task consults the template score
\* when a claim template is loaded and the OCR text otherwise, and taps the
\* centre of claim_region once exactly when the detector is positive.
C17_ClaimOnDetection ==
    /\ GemsEligible =>
          /\ IF "claim_region" \in TEMPLATES
             THEN img.claim_score # {} /\ img.claim_text = {}
             ELSE img.claim_text # {} /\ img.claim_score = {}
          /\ ClaimPositive => taps = << Mid(pre.cfg.claim_region) >>
          /\ ~ClaimPositive => taps = <<>>
    /\ Stepped("gems") /\ ~GemsEligible => taps = <<>>

C17_Witness ==
    /\ GemsEligible
    /\ img.claim_score = {70}
    /\ taps = << <<86 + 108, 1023 + 34>> >>

\* the latest step was a start() call, a stop() call up to its join, the
\* return of stop() from its join
Started    == pre.pc = "start"
StopCalled == pre.pc = "stop"
StopJoined == pre.pc = "joined"

\* the fields of BotConfig that hold the run's state
RuntimeFields == {"state", "wave_number", "_cooldown"}

\* the latest step was a step of the worker inside _loop
WorkerStepped == pre.pc \in {"top", "sleep"} \cup TaskPcs /\ pc # pre.pc

\* C18: start() on a running worker creates no second worker and leaves the
\* stop signal and everything else; stop() on a worker that is not running
\* sets no signal, waits for nothing and leaves everything; there is never
\* more than one worker.
C18_StartStopNoOps ==
    /\ Started /\ pre._thr = "alive" =>
          /\ workers = pre.workers
          /\ _stop = pre._stop
          /\ _thr = pre._thr
          /\ cfg = pre.cfg /\ _next = pre._next
    /\ Started /\ pre._thr # "alive" =>
          workers = 1 /\ _thr = "alive" /\ ~_stop
    /\ StopCalled /\ pre._thr # "alive" =>
          /\ ~joining
          /\ _stop = pre._stop
          /\ workers = pre.workers
          /\ _thr = pre._thr
          /\ cfg = pre.cfg /\ _next = pre._next
    /\ StopCalled /\ pre._thr = "alive" => _stop /\ joining
    /\ workers <= 1

C18_Witness ==
    /\ Started
    /\ pre._thr = "alive"
    /\ pc \in TaskPcs
    /\ workers = 1

\* C19: a stop() call that finds the worker running leads to the worker
\* having left _loop and stop() having returned.
C19_StopTerminates == (joining /\ workers > 0) ~> (~joining /\ workers = 0)

C19_Witness == StopJoined /\ workers = 0 /\ clock > 0

\* C20: with the stop signal set in the middle of a tick the worker goes on
\* with the rest of the tick, in order, and leaves _loop only at the loop
\* head; once stop() has returned no worker is left, and while none is,
\* nothing is tapped and state, wave_number, the cooldown ledger and _next
\* stay as they are.
C20_StopAtTickBoundary ==
    /\ WorkerStepped => pre.workers > 0 /\ ~(pre.pc = "top" /\ pre._stop)
    /\ \A k \in 1..6 : Stepped(TaskOrder[k]) /\ pre._stop => pc = TaskOrder[k + 1]
    /\ pre.pc = "exit" => pc = "top" /\ pre._stop /\ workers = pre.workers - 1
    /\ StopJoined => workers = 0 /\ _thr = "dead" /\ ~joining
    /\ pre.workers = 0 =>
          /\ taps = <<>>
          /\ cfg = pre.cfg
          /\ _next = pre._next
    /\ workers = 0 => pc = "top"

\* a task taps after the signal was set in the middle of its tick
C20_Witness ==
    /\ WorkerStepped
    /\ pre.pc \in TaskPcs
    /\ pre._stop
    /\ joining
    /\ taps # <<>>

\* a task's ocr_text call raised in the latest step
Raised == \E f \in TaskReads : img[f] = {TesseractError}

\* C21: when a call made by one task's check raises, that task alone does
\* nothing in the tick: the worker is still there, it goes on with the task
\* that follows, and a worker ends only when the stop signal is set.
C21_FailureIsolation ==
    /\ Raised =>
          /\ workers = pre.workers
          /\ taps = <<>>
          /\ pc = Following(pre.pc)
    /\ workers < pre.workers => pre._stop

\* the checks that read a text
TextReads == {"wave", "retry1", "retry2", "defence_text", "claim_text",
              "new_perk_text"}

WorkerActed == pre.pc \in {"boot", "top", "sleep"} \cup TaskPcs /\ pc # pre.pc

\* the latest step was a call or a click of the controlling context
ControllerActed == pre.pc \in {"start", "stop", "joined", "coords", "capture"}

\* C23: a step of the worker leaves every toggle, threshold, interval,
\* region and tap point of BotConfig as it found it, and a step of the
\* controlling context leaves state, wave_number and the cooldown ledger.
C23_SingleWriter ==
    /\ WorkerActed =>
          \A f \in DOMAIN cfg \ RuntimeFields : cfg[f] = pre.cfg[f]
    /\ ControllerActed =>
          \A f \in RuntimeFields : cfg[f] = pre.cfg[f]

\* the toggle that gates each toggle-gated task
ToggleOf == [retry |-> "retry_enabled", float |-> "float_enabled",
             gems |-> "gems_enabled", perk |-> "perk_enabled"]

\* the latest step ran the body of its task: it read, tapped or wrote something
Ran == img # NoImg \/ taps # <<>> \/ cfg # pre.cfg \/ _next # pre._next

\* C24: a task step goes by the toggle as the controlling context last left
\* it: with the toggle off the task reads nothing, taps nothing and writes
\* nothing, whatever earlier ticks did, and with the toggle on it runs as
\* soon as its interval and cooldown have elapsed; the upgrade step neither
\* reads nor taps the region of a toggle that is off.
C24_ToggleNextTick ==
    /\ \A k \in DOMAIN ToggleOf :
          Stepped(k) =>
              IF pre.cfg[ToggleOf[k]]
              THEN /\ now >= pre._next[k]
                   /\ time_time(clock) >= Get(pre.cfg._cooldown, k, 0)
                   => Ran
              ELSE ~Ran
    /\ Stepped("upg") =>
          /\ ~pre.cfg.health_enabled =>
                 img.health = {} /\ Mid(pre.cfg.health_region) \notin Tapped
          /\ ~pre.cfg.abs_def_enabled =>
                 img.abs_def = {} /\ Mid(pre.cfg.abs_def_region) \notin Tapped

\* the gems task ran in an earlier tick, the toggle was then set to false,
\* and in a tick where interval and cooldown have elapsed the task does nothing
C24_Witness ==
    /\ writes = 1
    /\ Stepped("gems")
    /\ ~pre.cfg.gems_enabled
    /\ "gems" \in DOMAIN attempted
    /\ now >= pre._next["gems"]
    /\ time_time(clock) >= Get(pre.cfg._cooldown, "gems", 0)
    /\ ~Ran

\* C25: whatever start() and stop() calls were made, at most one thread is
\* executing _loop, and it is the thread self._thr names: one worker when
\* that thread is alive, none when there is no thread or it has ended.
C25_AtMostOneWorker ==
    /\ workers \in {0, 1}
    /\ workers = 1 <=> _thr = "alive"
    /\ workers = 0 <=> _thr \in {"None", "dead"}

\* a start() after a stop() that ended the first worker: again one worker
C25_Witness ==
    /\ Started
    /\ pre._thr = "dead"
    /\ pre.workers = 0
    /\ workers = 1
    /\ clock > 0

\* C26: with wave_number at or above perk_stop the new-perk step taps
\* nothing and does not move the state to PERK_SELECTING.
C26_PerkStopHonoured ==
    Stepped("perk") /\ pre.cfg.wave_number >= pre.cfg.perk_stop =>
        /\ taps = <<>>
        /\ cfg.state # PERK_SELECTING

\* the interval field of each task
IntervalField == [wave |-> "wave_interval", retry |-> "retry_interval",
                  def |-> "defence_interval", upg |-> "upgrade_interval",
                  float |-> "float_interval", gems |-> "gems_interval",
                  perk |-> "perk_interval"]

\* C27: when a task's body runs and had run before, the `now` of this
\* iteration is at least the task's interval field after the `now` of the
\* iteration that ran it last.
C27_AttemptsSpaced ==
    \A k \in TaskPcs :
        Stepped(k) /\ Ran /\ k \in DOMAIN pre.attempted =>
            now - pre.attempted[k] >= pre.cfg[IntervalField[k]]

\* the retry task runs again in the first iteration that begins
\* retry_interval after the one that ran it last
C27_Witness ==
    /\ Stepped("retry")
    /\ Ran
    /\ "retry" \in DOMAIN pre.attempted
    /\ now - pre.attempted["retry"] = pre.cfg.retry_interval

\* the interval can_act used in a call that returned true
UsedInterval == cfg._cooldown[call.key] - call.now

\* C28: can_act uses the key's value in the override map when the key is in
\* it (for perk 3.0, not perk_interval = 2.0), else the "<key>_interval"
\* field of cfg when there is one, else 0; a key with neither is granted on
\* every call.
C28_IntervalResolution ==
    /\ Called /\ call.ret =>
          UsedInterval =
              IF call.key \in DOMAIN cooldown_time THEN cooldown_time[call.key]
              ELSE IF IntervalAttr(call.key) # <<>>
                   THEN pre.cfg[IntervalAttr(call.key)[1]]
                   ELSE 0
    /\ Called /\ call.key = "perk" => pre.cfg.perk_interval # cooldown_time["perk"]
    /\ Called /\ call.key = "zzz" => call.ret

\* a key with neither an override nor a field is granted twice in one second
C28_Witness ==
    /\ Called
    /\ call.key = "zzz"
    /\ call.ret
    /\ call.now \in call.last
    /\ UsedInterval = 0

\* the three checks that have two strategies: the key of the template, and
\* where the step keeps the score and the text it read
Checks ==
    [def  |-> [key |-> "defence_region", score |-> "defence_score",
               text |-> "defence_text"],
     gems |-> [key |-> "claim_region", score |-> "claim_score",
               text |-> "claim_text"],
     perk |-> [key |-> "new_perk_region", score |-> "new_perk_score",
               text |-> "new_perk_text"]]

\* the score read by the check of step k reaches 0.70
ScoreHit(k) == \E score \in img[Checks[k].score] : score >= MATCH_THRESHOLD

\* the text read by the check of step k has the keywords of the check
TextHit(k) ==
    \E out \in img[Checks[k].text] :
        LET low == lower(ocr_text(out))
        IN  CASE k = "def"  -> /\ Contains(kw_defense, low) \/ Contains(kw_defence, low)
                               /\ Contains(kw_upgrade, low)
              [] k = "gems" -> Contains(kw_claim, low)
              [] k = "perk" -> Contains(kw_new_perk, low)

\* C29: the set of loaded templates never changes; a check whose template is
\* loaded reads a score and no text and its outcome is score >= 0.70; a
\* check whose template is not loaded reads the text and no score and its
\* outcome is the keyword test.
C29_StrategyFixed ==
    /\ TEMPLATES = pre.TEMPLATES
    /\ \A k \in DOMAIN Checks :
          LET hit == IF Checks[k].key \in TEMPLATES THEN ScoreHit(k) ELSE TextHit(k)
          IN  /\ Checks[k].key \in TEMPLATES => img[Checks[k].text] = {}
              /\ Checks[k].key \notin TEMPLATES => img[Checks[k].score] = {}
              /\ Stepped(k) /\ Ran =>
                    /\ img[Checks[k].score] # {} \/ img[Checks[k].text] # {}
                    /\ k = "gems" => (taps # <<>> <=> hit)
                    /\ k = "perk" => (triggered <=> hit) /\ (taps # <<>> <=> hit)
                    /\ k = "def" => (hit => taps = <<>>)
                    /\ k = "def" /\ time_time(clock) >= Get(pre.cfg._cooldown, "def", 0)
                           => (~hit => taps # <<>>)

\* with the claim template alone loaded the gems step goes by the score
\* while the defence step of the same tick went by the text
C29_Witness ==
    /\ TEMPLATES = {"claim_region"}
    /\ Stepped("gems")
    /\ img.claim_score = {70}
    /\ img.claim_text = {}
    /\ taps # <<>>
    /\ attempted["def"] = now

\* C30: cv_match gives cv2.matchTemplate the crop as it is and a template of
\* the crop's shape: the template itself when the shapes are equal, else the
\* template resized to the crop's width and height, so that the score is the
\* score of the crop against the template resized beforehand.
C30_TemplateResizedToCrop ==
    \A sub \in match.sub, tpl \in match.tpl,
       image \in match.image, templ \in match.templ :
        LET resized == cv2_resize(tpl, <<sub.shape[2], sub.shape[1]>>)
        IN  /\ image = sub
            /\ templ.shape = sub.shape
            /\ templ.of = "tpl" /\ templ.from = tpl.shape
            /\ tpl.shape = sub.shape => templ = tpl
            /\ tpl.shape # sub.shape => templ = resized /\ templ # tpl
            /\ cv2_matchTemplate(image, templ) = cv_match(sub, resized)
            /\ cv_match(sub, resized).templ = resized

\* a crop 50 wide and 20 high scored against a template 100 wide and 40 high
C30_Witness ==
    \E sub \in match.sub, tpl \in match.tpl,
       image \in match.image, templ \in match.templ :
        /\ sub.shape = <<20, 50>>
        /\ tpl.shape = <<40, 100>>
        /\ image.shape = <<20, 50>>
        /\ templ.shape = <<20, 50>>

\* the region and tap-point fields of BotConfig
RegionFields == DOMAIN DEFAULT_REGIONS

\* C31: load_regions gives each region and tap-point field the value
\* regions.json holds for it, leaves the fields the file does not name, and
\* leaves every other field of BotConfig whatever keys the file holds.
C31_OnlyRegionKeys ==
    pre.pc = "load" =>
        \A data \in REGION_FILE :
            /\ \A f \in DOMAIN cfg \ RegionFields : cfg[f] = pre.cfg[f]
            /\ \A f \in RegionFields :
                   cfg[f] = IF f \in DOMAIN data THEN data[f] ELSE pre.cfg[f]

\* the ledger entry of key k is in c2 what it is in c1, absent included
SameEntry(c1, c2, k) ==
    /\ k \in DOMAIN c1._cooldown <=> k \in DOMAIN c2._cooldown
    /\ k \in DOMAIN c1._cooldown => c1._cooldown[k] = c2._cooldown[k]

\* C32: a step whose toggle is off taps nothing; for retry, floating gem,
\* gems claim and new perk it also leaves the task's ledger entry and its
\* next-eligible time, and the upgrade step does not tap the region of a
\* toggle that is off; the state becomes PERK_SELECTING only in a step that
\* finds perk_enabled true.
C32_ToggleOffFrame ==
    /\ \A k \in DOMAIN ToggleOf :
          Stepped(k) /\ ~pre.cfg[ToggleOf[k]] =>
              /\ taps = <<>>
              /\ SameEntry(pre.cfg, cfg, k)
              /\ _next[k] = pre._next[k]
    /\ Stepped("upg") /\ ~pre.cfg.health_enabled =>
          Mid(pre.cfg.health_region) \notin Tapped
    /\ Stepped("upg") /\ ~pre.cfg.abs_def_enabled =>
          Mid(pre.cfg.abs_def_region) \notin Tapped
    /\ Stepped("upg") /\ ~pre.cfg.health_enabled /\ ~pre.cfg.abs_def_enabled =>
          taps = <<>>
    /\ cfg.state = PERK_SELECTING /\ pre.cfg.state # PERK_SELECTING =>
          pre.cfg.perk_enabled

\* retry was granted in an earlier tick, the toggle was then set to false,
\* and in a tick where interval and cooldown have elapsed the ledger entry
\* stays
C32_Witness ==
    /\ Stepped("retry")
    /\ ~pre.cfg.retry_enabled
    /\ "retry" \in DOMAIN cfg._cooldown
    /\ now >= pre._next["retry"]
    /\ time_time(clock) >= cfg._cooldown["retry"]
    /\ taps = <<>>

\* how many of the latest step's taps went to point
TapsAt(point) == Cardinality({i \in 1..Len(taps) : taps[i] = point})

\* C33: the wave step taps nothing; the retry, defence-tab, floating-gem,
\* gems-claim and new-perk steps tap at most once each; the upgrade step taps
\* at most once for health and at most once for absolute defence and nothing
\* else; the head of a tick that begins in PERK_SELECTING taps at most once
\* and no task step follows it in that tick.  Each step comes once in a tick,
\* so an IDLE tick taps at most seven times.
C33_TapBound ==
    /\ Stepped("wave") => taps = <<>>
    /\ \A k \in {"retry", "def", "float", "gems", "perk"} :
          Stepped(k) => Len(taps) <= 1
    /\ Stepped("upg") =>
          /\ Len(taps) <= 2
          /\ TapsAt(Mid(pre.cfg.health_region)) <= 1
          /\ TapsAt(Mid(pre.cfg.abs_def_region)) <= 1
          /\ Len(taps) = TapsAt(Mid(pre.cfg.health_region))
                             + TapsAt(Mid(pre.cfg.abs_def_region))
    /\ HandledPerks => Len(taps) <= 1 /\ pc = "sleep"
    /\ Stepped("top") /\ pre.cfg.state # PERK_SELECTING => taps = <<>>

\* a tick that begins in PERK_SELECTING with two regions that match a
\* priority taps once
C33_Witness ==
    /\ HandledPerks
    /\ Len(taps) = 1
    /\ \E outs \in img.perk :
           Cardinality({i \in 1..4 : \E p \in 1..Len(pre.cfg.perk_priority) :
               Contains(pre.cfg.perk_priority[p], lower(ocr_text(outs[i])))}) >= 2


\* C34: the rows of the perk-order list, top first, are cfg.perk_priority,
\* the list the perk selector iterates
C34_ListIsPriority == lb.items = cfg.perk_priority

====
